---- MODULE Spec2Model ----
(***************************************************************************)
(* A model of repo_lens: the command validator, the plan parser, the plan  *)
(* executor, the output truncation, the process runner, the context        *)
(* gatherer, the iterative git tool and the CLI entry points that start    *)
(* subprocesses.                                                           *)
(*                                                                         *)
(* Text is modelled as sequences of atoms.  A command string is a sequence *)
(* of atoms, each either a run of ordinary characters ("git", "log", ...)  *)
(* or one special character (space, quote, backslash, form feed).  Tokens  *)
(* produced by shlex are real strings, built by concatenation.             *)
(***************************************************************************)
EXTENDS Naturals, Sequences, FiniteSets, TLC

VARIABLES
    pc,          \* position of the running entry point
    command,     \* SpecValidate: the command string under validation
    verdict,     \* SpecValidate: the outcome of _validate_command
    text,        \* SpecTruncate: the text given to _truncate_output
    truncated,   \* SpecTruncate: the text _truncate_output returns
    grep,        \* SpecContext: whether a grep term is given to gather_repo_context
    inspections, \* SpecContext: the git processes gather_repo_context will run
    client,      \* the kind of model client the run was given
    content,     \* the content of the model's plan response
    plan,        \* the plan plan_git_commands returned
    error,       \* "none", or the exception that ended the run
    entryPoint,  \* the entry point that is running
    include_diff, \* Settings.include_diff
    repo,        \* "ok": a git work tree; "broken": every git command fails
    context,     \* the text gather_repo_context returned
    executions,  \* the CommandExecution records made so far
    modelCalls,  \* how many requests were sent to the model
    steps,       \* the steps the iterative agent has begun
    toolCalls,   \* how often GitTool.forward was invoked
    toolOut,     \* what the last GitTool.forward returned
    toolCommand, \* the command the last GitTool.forward was given
    runLog       \* every subprocess started so far, in order

pureVars == <<command, verdict, text, truncated, grep, inspections>>

runVars ==
    <<entryPoint, include_diff, repo, context, executions, modelCalls, steps, toolCalls, toolOut,
      toolCommand>>

vars ==
    <<pc, command, verdict, text, truncated, grep, inspections, client, content, plan, error,
      runLog, runVars>>

-----------------------------------------------------------------------------
(* Bounds of the model *)

MaxCmdLen == 5
MaxRuns == 3
MaxEntries == 5
MaxPlanned == 2
MaxToolCalls == 3
MaxLoopCalls == 7

-----------------------------------------------------------------------------
(* config.py *)

ALLOWED_SUBCOMMANDS ==
    {"log", "show", "rev-list", "rev-parse", "describe", "status",
     "shortlog", "cat-file", "diff", "ls-tree", "grep", "blame"}

-----------------------------------------------------------------------------
(* Characters.  An atom that is none of the special characters below is a  *)
(* run of ordinary (word) characters.                                      *)

SP == " "
SQ == "'"
DQ == "\""
BS == "\\"
FF == "\f"
NL == "\n"

\* shlex.whitespace is ' \t\r\n'
IsShlexWhitespace(a) == a \in {SP, NL}

\* str.strip() removes every character str.isspace() accepts; form feed is one
IsPyWhitespace(a) == a \in {SP, NL, FF}

IsQuote(a) == a \in {SQ, DQ}

RECURSIVE LStrip(_)
LStrip(s) ==
    IF s = <<>> THEN <<>>
    ELSE IF IsPyWhitespace(Head(s)) THEN LStrip(Tail(s)) ELSE s

RECURSIVE RStrip(_)
RStrip(s) ==
    IF s = <<>> THEN <<>>
    ELSE IF IsPyWhitespace(s[Len(s)]) THEN RStrip(SubSeq(s, 1, Len(s) - 1)) ELSE s

\* str.strip()
Strip(s) == RStrip(LStrip(s))

-----------------------------------------------------------------------------
(* shlex.split(s): shlex(s, posix=True) with whitespace_split = True and   *)
(* no commenters.  The lexer state is st: "ws" between tokens, "a" inside  *)
(* a word, a quote character inside quotes, BS after an escape character;  *)
(* esc is shlex.escapedstate.  The result is [ok, parts]; ok = FALSE is    *)
(* the ValueError shlex raises (no closing quotation, no escaped           *)
(* character).                                                             *)

RECURSIVE ShlexRun(_, _, _, _, _, _, _)
ShlexRun(s, i, st, esc, tok, quoted, parts) ==
    IF i > Len(s) THEN
        \* end of input
        IF IsQuote(st) \/ st = BS THEN [ok |-> FALSE, parts |-> <<>>]
        ELSE IF tok # "" \/ quoted THEN [ok |-> TRUE, parts |-> Append(parts, tok)]
        ELSE [ok |-> TRUE, parts |-> parts]
    ELSE
        LET c == s[i] IN
        IF st = "ws" THEN
            IF IsShlexWhitespace(c) THEN ShlexRun(s, i + 1, "ws", esc, "", FALSE, parts)
            ELSE IF c = BS THEN ShlexRun(s, i + 1, BS, "a", tok, quoted, parts)
            ELSE IF IsQuote(c) THEN ShlexRun(s, i + 1, c, esc, tok, TRUE, parts)
            ELSE ShlexRun(s, i + 1, "a", esc, c, quoted, parts)
        ELSE IF IsQuote(st) THEN
            IF c = st THEN ShlexRun(s, i + 1, "a", esc, tok, TRUE, parts)
            ELSE IF c = BS /\ st = DQ THEN ShlexRun(s, i + 1, BS, st, tok, TRUE, parts)
            ELSE ShlexRun(s, i + 1, st, esc, tok \o c, TRUE, parts)
        ELSE IF st = BS THEN
            IF IsQuote(esc) /\ c # BS /\ c # esc
            THEN ShlexRun(s, i + 1, esc, esc, (tok \o BS) \o c, quoted, parts)
            ELSE ShlexRun(s, i + 1, esc, esc, tok \o c, quoted, parts)
        ELSE \* st = "a"
            IF IsShlexWhitespace(c) THEN
                IF tok # "" \/ quoted
                THEN ShlexRun(s, i + 1, "ws", esc, "", FALSE, Append(parts, tok))
                ELSE ShlexRun(s, i + 1, "ws", esc, "", FALSE, parts)
            ELSE IF IsQuote(c) THEN ShlexRun(s, i + 1, c, esc, tok, TRUE, parts)
            ELSE IF c = BS THEN ShlexRun(s, i + 1, BS, "a", tok, quoted, parts)
            ELSE ShlexRun(s, i + 1, "a", esc, tok \o c, quoted, parts)

ShlexSplit(s) == ShlexRun(s, 1, "ws", "a", "", FALSE, <<>>)

\* str.split(): the whitespace-separated words of a command string, each the
\* plain concatenation of its characters (quotes and backslashes included)
RECURSIVE WordsRun(_, _, _, _)
WordsRun(s, i, tok, parts) ==
    IF i > Len(s) THEN (IF tok # "" THEN Append(parts, tok) ELSE parts)
    ELSE IF IsPyWhitespace(s[i])
         THEN WordsRun(s, i + 1, "", IF tok # "" THEN Append(parts, tok) ELSE parts)
         ELSE WordsRun(s, i + 1, tok \o s[i], parts)

WhitespaceWords(s) == WordsRun(s, 1, "", <<>>)

-----------------------------------------------------------------------------
(* repo_agent/command_agent.py: _validate_command.  The result names the   *)
(* exception raised, or "ok" when the function returns.                    *)

SubcommandAllowedAny(subcommand) == TRUE

AcceptAnything(cmd) == "ok"

SubcommandAllowed(subcommand) == subcommand \in ALLOWED_SUBCOMMANDS

ValidateLengthFirst(cmd) ==
    LET split == ShlexSplit(cmd) IN
    IF ~split.ok THEN "ValueError"
    ELSE IF Len(split.parts) <= 1 THEN "CommandPlanError:subcommand"
    ELSE IF split.parts[1] # "git" THEN "CommandPlanError:start"
    ELSE IF ~SubcommandAllowed(split.parts[2]) THEN "CommandPlanError:notallowed"
    ELSE "ok"

_validate_command(cmd) ==
    LET split == ShlexSplit(cmd) IN
    IF ~split.ok THEN "ValueError"
    ELSE IF split.parts = <<>> \/ split.parts[1] # "git" THEN "CommandPlanError:start"
    ELSE IF Len(split.parts) = 1 THEN "CommandPlanError:subcommand"
    ELSE IF ~SubcommandAllowed(split.parts[2]) THEN "CommandPlanError:notallowed"
    ELSE "ok"

-----------------------------------------------------------------------------
(* The command strings the validator is checked on: every sequence of at   *)
(* most MaxCmdLen atoms.                                                   *)

CmdAtoms == {"git", "log", "reset", SP, SQ, DQ, BS}

SeqsUpTo(S, n) == UNION {[1..k -> S] : k \in 0..n}

AllCommands == SeqsUpTo(CmdAtoms, MaxCmdLen)

-----------------------------------------------------------------------------
(* Output text.  Process output can be thousands of characters long, so a  *)
(* text is kept run-length encoded: a sequence of runs <<c, n>>, character *)
(* c repeated n > 0 times, adjacent runs of different characters.          *)

TLen(t) == LET RECURSIVE Sum(_)
               Sum(i) == IF i = 0 THEN 0 ELSE t[i][2] + Sum(i - 1)
           IN Sum(Len(t))

\* t + u
TConcat(t, u) ==
    IF t = <<>> THEN u
    ELSE IF u = <<>> THEN t
    ELSE IF t[Len(t)][1] = u[1][1]
         THEN SubSeq(t, 1, Len(t) - 1) \o <<<<u[1][1], t[Len(t)][2] + u[1][2]>>>> \o Tail(u)
         ELSE t \o u

\* t[:k]
RECURSIVE TTake(_, _)
TTake(t, k) ==
    IF k = 0 \/ t = <<>> THEN <<>>
    ELSE IF t[1][2] <= k THEN <<t[1]>> \o TTake(Tail(t), k - t[1][2])
    ELSE <<<<t[1][1], k>>>>

\* t[k:]
RECURSIVE TDrop(_, _)
TDrop(t, k) ==
    IF t = <<>> THEN <<>>
    ELSE IF k = 0 THEN t
    ELSE IF t[1][2] <= k THEN TDrop(Tail(t), k - t[1][2])
    ELSE <<<<t[1][1], t[1][2] - k>>>> \o Tail(t)

\* t.endswith(u)
TEndsWith(t, u) == TLen(t) >= TLen(u) /\ TDrop(t, TLen(t) - TLen(u)) = u

RECURSIVE TLStrip(_)
TLStrip(t) ==
    IF t = <<>> THEN <<>>
    ELSE IF IsPyWhitespace(t[1][1]) THEN TLStrip(Tail(t)) ELSE t

\* t.rstrip()
RECURSIVE TRStrip(_)
TRStrip(t) ==
    IF t = <<>> THEN <<>>
    ELSE IF IsPyWhitespace(t[Len(t)][1]) THEN TRStrip(SubSeq(t, 1, Len(t) - 1)) ELSE t

\* t.strip()
TStrip(t) == TRStrip(TLStrip(t))

-----------------------------------------------------------------------------
(* _truncate_output, the same function in repo_agent/command_agent.py and  *)
(* repo_lens/command_agent.py.                                             *)

MAX_OUTPUT_CHARS == 4000

\* the 20 of stripped[: MAX_OUTPUT_CHARS - 20]
TRUNCATE_MARGIN == 20

\* "<no output>"
NO_OUTPUT ==
    <<<<"<", 1>>, <<"n", 1>>, <<"o", 1>>, <<SP, 1>>, <<"o", 1>>, <<"u", 1>>,
      <<"t", 1>>, <<"p", 1>>, <<"u", 1>>, <<"t", 1>>, <<">", 1>>>>

\* "\n...[truncated]"
TRUNCATION_MARKER ==
    <<<<NL, 1>>, <<".", 3>>, <<"[", 1>>, <<"t", 1>>, <<"r", 1>>, <<"u", 1>>,
      <<"n", 1>>, <<"c", 1>>, <<"a", 1>>, <<"t", 1>>, <<"e", 1>>, <<"d", 1>>,
      <<"]", 1>>>>

CutKeepWhitespace(stripped) == TTake(stripped, MAX_OUTPUT_CHARS - TRUNCATE_MARGIN)

TruncateUntrimmed(t) ==
    IF TStrip(t) = <<>> THEN NO_OUTPUT
    ELSE IF TLen(t) <= MAX_OUTPUT_CHARS THEN t
    ELSE TConcat(TRStrip(TTake(t, MAX_OUTPUT_CHARS - TRUNCATE_MARGIN)), TRUNCATION_MARKER)

\* stripped[: MAX_OUTPUT_CHARS - 20].rstrip()
Cut(stripped) == TRStrip(TTake(stripped, MAX_OUTPUT_CHARS - TRUNCATE_MARGIN))

_truncate_output(t) ==
    LET stripped == TStrip(t) IN
    IF stripped = <<>> THEN NO_OUTPUT
    ELSE IF TLen(stripped) <= MAX_OUTPUT_CHARS THEN stripped
    ELSE TConcat(Cut(stripped), TRUNCATION_MARKER)

-----------------------------------------------------------------------------
(* The texts _truncate_output is checked on: at most MaxRuns runs of an    *)
(* ordinary character, a space or a newline, with lengths around the       *)
(* budget and around the cut.                                              *)

RunChars == {"a", SP, NL}

RunLens == {1, 20, 21, 3979, 3980, 4000, 4001}

TextRuns == RunChars \X RunLens

AllTexts ==
    {t \in SeqsUpTo(TextRuns, MaxRuns) :
        \A i \in 1..(Len(t) - 1) : t[i][1] # t[i + 1][1]}

-----------------------------------------------------------------------------
(* The text of a model response: a sequence of atoms [k, v].  k names the  *)
(* atom: "fence" (three backticks), "nl", "sp", "word" (prose, or the      *)
(* language tag after a fence), "think_open" (<think>), "think_close"      *)
(* (</think>), "json" (the text of one JSON document, v).  A JSON document *)
(* is [top, commands, entries]: the type of its top level, what its        *)
(* "commands" member is, and the entries when that is a list.  An entry is *)
(* [kind, command, reason]; a field is [kind, s]: "str" with its text,     *)
(* "absent", or "number".                                                  *)

NoField == [kind |-> "absent", s |-> <<>>]

Str(s) == [kind |-> "str", s |-> s]

Doc(top, commands, entries) == [top |-> top, commands |-> commands, entries |-> entries]

NullDoc == Doc("null", "absent", <<>>)

Atom(k) == [k |-> k, v |-> NullDoc]

Json(doc) == [k |-> "json", v |-> doc]

IsSpace(a) == a.k \in {"sp", "nl"}

RECURSIVE LStripText(_)
LStripText(s) ==
    IF s = <<>> THEN <<>>
    ELSE IF IsSpace(Head(s)) THEN LStripText(Tail(s)) ELSE s

RECURSIVE RStripText(_)
RStripText(s) ==
    IF s = <<>> THEN <<>>
    ELSE IF IsSpace(s[Len(s)]) THEN RStripText(SubSeq(s, 1, Len(s) - 1)) ELSE s

StripText(s) == RStripText(LStripText(s))

\* the index of the first atom of kind k at or after from, 0 when there is none
Find(s, k, from) ==
    IF \E i \in from..Len(s) : s[i].k = k
    THEN CHOOSE i \in from..Len(s) : s[i].k = k /\ \A j \in from..(i - 1) : s[j].k # k
    ELSE 0

\* s[i:] (0-based i), the atoms after the first i
After(s, i) == SubSeq(s, i + 1, Len(s))

-----------------------------------------------------------------------------
(* repo_agent/command_agent.py: _strip_code_fence *)

_strip_code_fence(txt) ==
    LET trimmed == StripText(txt) IN
    IF trimmed # <<>> /\ trimmed[1].k = "fence" /\ trimmed[Len(trimmed)].k = "fence"
    THEN LET nl == Find(trimmed, "nl", 1)
             \* trimmed.split("\n", 1)[-1]
             inner == IF nl = 0 THEN trimmed ELSE After(trimmed, nl)
             \* inner.rsplit("```", 1)[0]: inner ends with the closing fence
         IN StripText(SubSeq(inner, 1, Len(inner) - 1))
    ELSE trimmed

\* candidate.split("</think>", 1)[-1].strip(), when "</think>" is in candidate
AfterThinkClose(txt) ==
    LET close == Find(txt, "think_close", 1) IN
    IF close = 0 THEN txt ELSE StripText(After(txt, close))

\* re.sub(r'<think>.*?</think>', '', candidate, flags=re.DOTALL)
RECURSIVE RemoveThinkBlocks(_)
RemoveThinkBlocks(txt) ==
    LET open == Find(txt, "think_open", 1)
        close == IF open = 0 THEN 0 ELSE Find(txt, "think_close", open + 1)
    IN IF close = 0 THEN txt
       ELSE SubSeq(txt, 1, open - 1) \o RemoveThinkBlocks(After(txt, close))

\* json.loads(candidate): [ok, data]
JsonLoads(candidate) ==
    LET body == StripText(candidate) IN
    IF Len(body) = 1 /\ body[1].k = "json"
    THEN [ok |-> TRUE, data |-> body[1].v]
    ELSE [ok |-> FALSE, data |-> NullDoc]

\* _load_plan_json
_load_plan_json(raw) ==
    JsonLoads(StripText(RemoveThinkBlocks(AfterThinkClose(_strip_code_fence(raw)))))

-----------------------------------------------------------------------------
(* repo_agent/llm_client.py: _extract_content, and what chat_messages      *)
(* returns for each kind of client: LiteLLMClient strips the reasoning     *)
(* block from the content the model sent, a client that returns the        *)
(* content as it is (the tests' _StaticResponseClient) does not.           *)

_extract_content(c) ==
    IF c = <<>> THEN <<>>
    ELSE StripText(RemoveThinkBlocks(AfterThinkClose(c)))

Clients == {"LiteLLMClient", "StaticResponseClient"}

chat_messages(cl, c) ==
    IF cl = "LiteLLMClient" THEN _extract_content(c) ELSE c

-----------------------------------------------------------------------------
(* repo_agent/command_agent.py: plan_git_commands, from the text the       *)
(* client returned.  The result is [status, plan]: status "ok" and the     *)
(* plan, or the exception raised.                                          *)

MAX_COMMANDS == 4

AllEntries(entries) == entries

\* commands_field[:MAX_COMMANDS]
Retained(entries) ==
    SubSeq(entries, 1, IF Len(entries) < MAX_COMMANDS THEN Len(entries) ELSE MAX_COMMANDS)

RECURSIVE PlanLoop(_, _)
PlanLoop(entries, acc) ==
    IF entries = <<>> THEN [status |-> "ok", plan |-> acc]
    ELSE
        LET entry == Head(entries)
            raised == IF entry.kind # "object" THEN "AttributeError"
                      ELSE IF entry.command.kind # "str" \/ entry.reason.kind # "str"
                           THEN "CommandPlanError:entry"
                      ELSE _validate_command(entry.command.s)
        IN IF raised # "ok" THEN [status |-> raised, plan |-> <<>>]
           ELSE PlanLoop(Tail(entries),
                         Append(acc, [command |-> Strip(entry.command.s),
                                      reason |-> Strip(entry.reason.s)]))

\* not isinstance(data.get("commands", []), list): an absent member is
\* replaced by the default, an empty list
CommandsNotAList(data) == data.commands \notin {"list", "absent"}

plan_git_commands(raw_plan) ==
    LET loaded == _load_plan_json(raw_plan) IN
    IF ~loaded.ok THEN [status |-> "CommandPlanError:json", plan |-> <<>>]
    ELSE IF loaded.data.top # "object" THEN [status |-> "AttributeError", plan |-> <<>>]
    ELSE IF CommandsNotAList(loaded.data)
         THEN [status |-> "CommandPlanError:commands", plan |-> <<>>]
    ELSE PlanLoop(Retained(IF loaded.data.commands = "list" THEN loaded.data.entries ELSE <<>>),
                  <<>>)

-----------------------------------------------------------------------------
(* repo_lens/git_utils.py.  A finished git process is [code, stdout,       *)
(* stderr].  run_git gives [ok, out]: the trimmed standard output, or      *)
(* ok = FALSE and the message of the GitError it raises.                   *)

Proc(code, stdout, stderr) == [code |-> code, stdout |-> stdout, stderr |-> stderr]

\* str(exc) of the CalledProcessError, "Command '[...]' returned non-zero
\* exit status N.", shortened to its last words
CalledProcessErrorText ==
    <<<<"e", 1>>, <<"x", 1>>, <<"i", 1>>, <<"t", 1>>, <<SP, 1>>, <<"s", 1>>,
      <<"t", 1>>, <<"a", 1>>, <<"t", 1>>, <<"u", 1>>, <<"s", 1>>>>

Or(a, b) == IF a # <<>> THEN a ELSE b

RunGitStderrOnly(proc) ==
    IF proc.code = 0 THEN [ok |-> TRUE, out |-> TStrip(proc.stdout)]
    ELSE [ok |-> FALSE, out |-> TStrip(proc.stderr)]

run_git(proc) ==
    IF proc.code = 0 THEN [ok |-> TRUE, out |-> TStrip(proc.stdout)]
    ELSE [ok |-> FALSE,
          out |-> Or(TStrip(proc.stderr), Or(TStrip(proc.stdout), CalledProcessErrorText))]

\* "<git error: " + message + ">"
GitErrorSentinel(msg) ==
    TConcat(TConcat(<<<<"<", 1>>, <<"g", 1>>, <<"i", 1>>, <<"t", 1>>, <<SP, 1>>, <<"e", 1>>,
                      <<"r", 2>>, <<"o", 1>>, <<"r", 1>>, <<":", 1>>, <<SP, 1>>>>, msg),
            <<<<">", 1>>>>)

TryGitUnmarked(proc) == run_git(proc).out

try_git(proc) ==
    LET r == run_git(proc) IN IF r.ok THEN r.out ELSE GitErrorSentinel(r.out)

\* one subprocess: who started it, the arguments given to run_git (or the
\* command line given to the shell), and whether a shell interprets it
Started(origin, args, shell) == [origin |-> origin, args |-> args, shell |-> shell]

ViaShell(origin, args) == Started(origin, args, TRUE)

GitThroughShell(origin, args) == Started(origin, args, TRUE)

\* run_git: subprocess.run(["git", *args], ...), an argument vector
GitProcess(origin, args) == Started(origin, args, FALSE)

-----------------------------------------------------------------------------
(* repo_lens/context_builder.py: gather_repo_context.  procs are the git   *)
(* processes it runs, in order; the result is the sections, each [label,   *)
(* body], and the subprocesses started.                                    *)

PrettyFormat == "--pretty=format:%h | %an | %ad | %s"

ContextCalls(withGrep, diff) ==
    <<[label |-> "Branch: ", args |-> <<"rev-parse", "--abbrev-ref", "HEAD">>],
      [label |-> "Status:\n", args |-> <<"status", "-sb">>],
      [label |-> "Recent commits:\n",
       args |-> <<"log", "-n{commit_history_limit}", "--date=short", PrettyFormat>>]>>
    \o (IF withGrep
        THEN <<[label |-> "Grep results:\n",
                args |-> <<"log", "--date=short", PrettyFormat, "--grep={grep}">>]>>
        ELSE <<>>)
    \o (IF diff
        THEN <<[label |-> "Staged diff:\n", args |-> <<"diff", "--staged">>],
               [label |-> "Working diff:\n", args |-> <<"diff">>]>>
        ELSE <<>>)

\* one part of the context: a label and the text put after it
Part(label, body) == [label |-> label, body |-> body]

BLANK_LINE == Part("\n\n", <<>>)

\* "\n\n".join(part for part in parts if part)
RECURSIVE Join(_)
Join(parts) ==
    LET kept == SelectSeq(parts, LAMBDA part : part.label # "" \/ part.body # <<>>) IN
    IF Len(kept) <= 1 THEN kept
    ELSE <<kept[1], BLANK_LINE>> \o Join(Tail(kept))

gather_repo_context(withGrep, diff, procs) ==
    LET calls == ContextCalls(withGrep, diff)
        parts == <<Part("Repository: ", <<<<"{repo}", 1>>>>)>>
                 \o [i \in 1..Len(calls) |-> Part(calls[i].label, try_git(procs[i]))]
    IN [sections |-> parts,
        text |-> Join(parts),
        started |-> [i \in 1..Len(calls) |-> GitProcess("context", calls[i].args)]]

-----------------------------------------------------------------------------
(* repo_agent/command_agent.py: one iteration of execute_git_plan's loop.  *)
(* The result is [raised, args, record]: raised = TRUE when shlex.split    *)
(* raises and nothing runs, else the arguments given to run_git and the    *)
(* CommandExecution appended.                                              *)

Execution(cmd, reason, output, success) ==
    [command |-> cmd, reason |-> reason, output |-> output, success |-> success]

WholeCommand(parts) == parts

\* git_args = parts[1:]
git_args(parts) == SubSeq(parts, 2, Len(parts))

ExecuteItem(item, proc) ==
    LET split == ShlexSplit(item.command)
        r == run_git(proc)
    IN IF ~split.ok
       THEN [raised |-> TRUE, args |-> <<>>,
             record |-> Execution(item.command, item.reason, <<>>, FALSE)]
       ELSE [raised |-> FALSE, args |-> git_args(split.parts),
             record |-> Execution(item.command, item.reason, _truncate_output(r.out), r.ok)]

-----------------------------------------------------------------------------
(* repo_lens/command_agent.py: GitTool.forward.  The result is [ret, ran,  *)
(* args, appended, record]: the kind of string returned to the agent,      *)
(* whether run_git was called and with what, and the CommandExecution      *)
(* appended to self.executions, if any.                                    *)

STEP_REASON == <<"Step in agent reasoning loop">>

forward(cmd, proc) ==
    LET split == ShlexSplit(cmd)
        r == run_git(proc)
        denied(ret) == [ret |-> ret, ran |-> FALSE, args |-> <<>>, appended |-> FALSE,
                        record |-> Execution(cmd, STEP_REASON, <<>>, FALSE)]
    IN IF ~split.ok THEN denied("Unexpected error")
       ELSE IF split.parts = <<>> \/ split.parts[1] # "git" THEN denied("Error: must start with git")
       ELSE IF Len(split.parts) = 1 THEN denied("Error: must include a subcommand")
       ELSE IF ~SubcommandAllowed(split.parts[2]) THEN denied("Error: subcommand not allowed")
       ELSE IF r.ok
            THEN [ret |-> "output", ran |-> TRUE, args |-> git_args(split.parts),
                  appended |-> TRUE,
                  record |-> Execution(cmd, STEP_REASON, _truncate_output(r.out), TRUE)]
            ELSE [ret |-> "Git error", ran |-> TRUE, args |-> git_args(split.parts),
                  appended |-> TRUE,
                  record |-> Execution(cmd, STEP_REASON, r.out, FALSE)]

-----------------------------------------------------------------------------
(* Plan responses.  The entries a model may send, the documents built from *)
(* them, and the wrappings of a document in a response.                    *)

Entry(cmd, reason) == [kind |-> "object", command |-> cmd, reason |-> reason]

\* {"command": "git log", "reason": "why"}
EntryLog == Entry(Str(<<"git", SP, "log">>), Str(<<"why">>))

\* {"command": " git show ", "reason": "why "}
EntryShowPadded == Entry(Str(<<SP, "git", SP, "show", SP>>), Str(<<"why", SP>>))

\* {"command": "git reset", "reason": "why"}
EntryReset == Entry(Str(<<"git", SP, "reset">>), Str(<<"why">>))

\* {"command": "git log"}
EntryNoReason == Entry(Str(<<"git", SP, "log">>), NoField)

\* "git log", a string where an object is expected
EntryString == [kind |-> "string", command |-> NoField, reason |-> NoField]

\* {"command": "git 'log", "reason": "why"}: a quote that is never closed
EntryUnbalanced == Entry(Str(<<"git", SP, SQ, "log">>), Str(<<"why">>))

\* {"command": 1, "reason": "why"}
EntryNumber == Entry([kind |-> "number", s |-> <<>>], Str(<<"why">>))

ParseEntries ==
    {EntryLog, EntryShowPadded, EntryReset, EntryNoReason, EntryString, EntryUnbalanced,
     EntryNumber}

\* {"commands": [...]}
PlanDoc(entries) == Doc("object", "list", entries)

\* {}, {"commands": "git log"}, [] 
OddDocs == {Doc("object", "absent", <<>>), Doc("object", "string", <<>>), Doc("array", "absent", <<>>)}

Bare(doc) == <<Json(doc)>>

Fenced(doc) == <<Atom("fence"), Atom("word"), Atom("nl"), Json(doc), Atom("nl"), Atom("fence")>>

Thinking(txt) == <<Atom("think_open"), Atom("word"), Atom("think_close"), Atom("nl")>> \o txt

\* a fence with no line break, a closing reasoning marker with no opening
\* one, prose after the document, a reasoning block after the document
OtherWrappings(doc) ==
    {<<Atom("fence"), Json(doc), Atom("fence")>>,
     <<Atom("word"), Atom("think_close"), Json(doc)>>,
     <<Json(doc), Atom("sp"), Atom("word")>>,
     <<Atom("sp"), Json(doc), Atom("nl"), Atom("think_open"), Atom("word"), Atom("think_close")>>,
     <<Atom("word")>>,
     <<>>}

ContractWrappings(doc) == {Bare(doc), Fenced(doc), Thinking(Bare(doc)), Thinking(Fenced(doc))}

ParseResponses ==
    {Bare(PlanDoc(es)) : es \in SeqsUpTo(ParseEntries, MaxEntries)}
    \cup UNION {ContractWrappings(d) \cup OtherWrappings(d) :
                  d \in OddDocs \cup {PlanDoc(es) : es \in SeqsUpTo(ParseEntries, 1)}}

-----------------------------------------------------------------------------
(* SpecValidate: _validate_command applied to one command string.          *)

IdleValidate == command = <<>> /\ verdict = "none"

IdleTruncate == text = <<>> /\ truncated = <<>>

IdleContext == grep = FALSE /\ inspections = <<>>

IdleParse == client = "LiteLLMClient" /\ content = <<>> /\ plan = <<>> /\ error = "none"

IdleRun ==
    /\ entryPoint = "none"
    /\ include_diff = FALSE
    /\ repo = "ok"
    /\ context = <<>>
    /\ executions = <<>>
    /\ modelCalls = 0
    /\ steps = 0
    /\ toolCalls = 0
    /\ toolOut = "none"
    /\ toolCommand = <<>>

InitValidate ==
    /\ pc = "validate"
    /\ command \in AllCommands
    /\ verdict = "none"
    /\ IdleTruncate
    /\ IdleContext
    /\ IdleParse
    /\ runLog = <<>>
    /\ IdleRun

Validate ==
    /\ pc = "validate"
    /\ verdict = "none"
    /\ verdict' = _validate_command(command)
    /\ pc' = "validated"
    /\ UNCHANGED <<command, text, truncated, grep, inspections, client, content, plan, error,
                   runLog, runVars>>

NextValidate == Validate

SpecValidate == InitValidate /\ [][NextValidate]_vars

-----------------------------------------------------------------------------
(* SpecTruncate: _truncate_output applied to one text.                     *)

InitTruncate ==
    /\ pc = "truncate"
    /\ text \in AllTexts
    /\ truncated = <<>>
    /\ IdleValidate
    /\ IdleContext
    /\ IdleParse
    /\ runLog = <<>>
    /\ IdleRun

Truncate ==
    /\ pc = "truncate"
    /\ truncated' = _truncate_output(text)
    /\ pc' = "truncated"
    /\ UNCHANGED <<command, verdict, text, grep, inspections, client, content, plan, error,
                   runLog, runVars>>

NextTruncate == Truncate

SpecTruncate == InitTruncate /\ [][NextTruncate]_vars

-----------------------------------------------------------------------------
(* SpecParse: plan_git_commands applied to one model response.             *)

InitParse ==
    /\ pc = "parse"
    /\ client \in Clients
    /\ content \in ParseResponses
    /\ plan = <<>>
    /\ error = "none"
    /\ IdleValidate
    /\ IdleTruncate
    /\ IdleContext
    /\ runLog = <<>>
    /\ IdleRun

ParsePlan ==
    /\ pc = "parse"
    /\ LET got == plan_git_commands(chat_messages(client, content)) IN
       /\ plan' = got.plan
       /\ error' = IF got.status = "ok" THEN "none" ELSE got.status
    /\ pc' = "parsed"
    /\ UNCHANGED <<pureVars, client, content, runLog, runVars>>

NextParse == ParsePlan

SpecParse == InitParse /\ [][NextParse]_vars

-----------------------------------------------------------------------------
(* The inputs of a run: the git processes, the plan responses and the      *)
(* commands the iterative agent gives to the git tool.                     *)

ShortText == <<<<"a", 40>>, <<NL, 1>>>>

LongText == <<<<"a", 5000>>, <<NL, 1>>>>

FatalText == <<<<"f", 1>>, <<"a", 1>>, <<"t", 1>>, <<"a", 1>>, <<"l", 1>>, <<NL, 1>>>>

NotARepository == Proc(128, <<>>, FatalText)

\* what a git process can do in a work tree
PlanProcs(r) ==
    IF r = "broken" THEN {NotARepository}
    ELSE {Proc(0, ShortText, <<>>), Proc(0, <<>>, <<>>), Proc(0, LongText, <<>>),
          Proc(128, <<>>, FatalText)}

ToolProcs(r) ==
    IF r = "broken" THEN {NotARepository}
    ELSE {Proc(0, ShortText, <<>>), Proc(0, LongText, <<>>), Proc(1, <<>>, LongText)}

ContextProcs(r) ==
    IF r = "broken" THEN NotARepository ELSE Proc(0, ShortText, <<>>)

\* {"command": "git \"log\"", "reason": "why"}
EntryQuoted == Entry(Str(<<"git", SP, DQ, "log", DQ>>), Str(<<"why">>))

\* {"command": "git log \\ ", "reason": "why"}: the last argument is an
\* escaped space
EntryEscapedSpace == Entry(Str(<<"git", SP, "log", SP, BS, SP>>), Str(<<"why">>))

\* {"command": "git log \f", "reason": "why"}: the last argument is a form
\* feed, which str.strip() removes and shlex keeps
EntryFormFeed == Entry(Str(<<"git", SP, "log", SP, FF>>), Str(<<"why">>))

RunEntries ==
    {EntryLog, EntryShowPadded, EntryQuoted, EntryEscapedSpace, EntryFormFeed, EntryReset,
     EntryNoReason}

RunResponses ==
    {Bare(PlanDoc(es)) : es \in SeqsUpTo(RunEntries, MaxPlanned)}
    \cup {Bare(d) : d \in OddDocs}
    \cup ContractWrappings(PlanDoc(<<EntryLog>>))
    \cup {<<Atom("word")>>}

ToolCommands ==
    {<<"git", SP, "log">>, <<"git", SP, DQ, "log", DQ>>, <<"git", SP, "reset">>,
     <<"git", SP, SQ, "log">>, <<"git">>, <<"log">>, <<SP>>}

-----------------------------------------------------------------------------
(* SpecContext: gather_repo_context with or without a grep term, with or   *)
(* without the diffs, each git process it runs succeeding or failing on    *)
(* its own.                                                                *)

\* what one git inspection can do: print something, print nothing, fail
\* with a message on stderr, fail with its message on stdout, fail with
\* nothing but whitespace on either
InspectionOutcomes ==
    {Proc(0, ShortText, <<>>), Proc(0, <<>>, <<>>), NotARepository, Proc(1, ShortText, <<>>),
     Proc(1, <<<<NL, 1>>>>, <<<<SP, 1>>>>)}

InitContext ==
    /\ pc = "gather"
    /\ grep \in BOOLEAN
    /\ include_diff \in BOOLEAN
    /\ inspections \in [1..Len(ContextCalls(TRUE, TRUE)) -> InspectionOutcomes]
    /\ IdleValidate
    /\ IdleTruncate
    /\ IdleParse
    /\ runLog = <<>>
    /\ entryPoint = "none"
    /\ repo = "ok"
    /\ context = <<>>
    /\ executions = <<>>
    /\ modelCalls = 0
    /\ steps = 0
    /\ toolCalls = 0
    /\ toolOut = "none"
    /\ toolCommand = <<>>

Gather ==
    /\ pc = "gather"
    /\ LET got == gather_repo_context(grep, include_diff, inspections) IN
       /\ context' = got.text
       /\ runLog' = got.started
    /\ pc' = "gathered"
    /\ UNCHANGED <<pureVars, client, content, plan, error, entryPoint, include_diff, repo,
                   executions, modelCalls, steps, toolCalls, toolOut, toolCommand>>

NextContext == Gather

SpecContext == InitContext /\ [][NextContext]_vars

-----------------------------------------------------------------------------
(* Spec: one run of the program from one of its entry points.              *)

Init ==
    /\ pc = "Idle"
    /\ client \in Clients
    /\ include_diff \in BOOLEAN
    /\ repo \in {"ok", "broken"}
    /\ entryPoint = "none"
    /\ content = <<>>
    /\ plan = <<>>
    /\ error = "none"
    /\ context = <<>>
    /\ executions = <<>>
    /\ modelCalls = 0
    /\ steps = 0
    /\ toolCalls = 0
    /\ toolOut = "none"
    /\ toolCommand = <<>>
    /\ runLog = <<>>
    /\ IdleValidate
    /\ IdleTruncate
    /\ IdleContext

\* gather_repo_context, as every entry point that asks the model calls it
GatherContext(withGrep) ==
    LET n == Len(ContextCalls(withGrep, include_diff))
        got == gather_repo_context(withGrep, include_diff, [i \in 1..n |-> ContextProcs(repo)])
    IN /\ context' = got.text
       /\ runLog' = runLog \o got.started

(* repo_agent/command_agent.py: run_command_agent, the plan pipeline *)

\* context = gather_repo_context(settings)
PlanRunStart ==
    /\ pc = "Idle"
    /\ entryPoint' = "plan_pipeline"
    /\ GatherContext(FALSE)
    /\ pc' = "ContextGathered"
    /\ UNCHANGED <<pureVars, client, include_diff, repo, content, plan, error, executions,
                   modelCalls, steps, toolCalls, toolOut, toolCommand>>

\* plan = plan_git_commands(...): the model answers and the answer is parsed
PlanCommands ==
    /\ pc = "ContextGathered"
    /\ entryPoint = "plan_pipeline"
    /\ modelCalls' = modelCalls + 1
    /\ \E c \in RunResponses :
          LET got == plan_git_commands(chat_messages(client, c)) IN
          /\ content' = c
          /\ plan' = got.plan
          /\ error' = IF got.status = "ok" THEN "none" ELSE got.status
          /\ pc' = IF got.status = "ok" THEN "Planned" ELSE "Failed"
    /\ UNCHANGED <<pureVars, client, include_diff, repo, entryPoint, context, executions,
                   steps, toolCalls, toolOut, toolCommand, runLog>>

PlanTransportRetried ==
    /\ pc = "ContextGathered"
    /\ entryPoint = "plan_pipeline"
    /\ modelCalls < 3
    /\ modelCalls' = modelCalls + 1
    /\ UNCHANGED <<pureVars, client, include_diff, repo, entryPoint, content, plan, context,
                   executions, steps, toolCalls, toolOut, toolCommand, runLog, error, pc>>

\* client.chat_messages raises: the model could not be reached
PlanTransportError ==
    /\ pc = "ContextGathered"
    /\ entryPoint = "plan_pipeline"
    /\ modelCalls' = modelCalls + 1
    /\ error' = "TransportError"
    /\ pc' = "Failed"
    /\ UNCHANGED <<pureVars, client, include_diff, repo, entryPoint, content, plan, context,
                   executions, steps, toolCalls, toolOut, toolCommand, runLog>>

\* execute_git_plan: the next item of the plan
ExecutePlanItem ==
    /\ pc = "Planned"
    /\ Len(executions) < Len(plan)
    /\ \E proc \in PlanProcs(repo) :
          LET did == ExecuteItem(plan[Len(executions) + 1], proc) IN
          IF did.raised
          THEN /\ error' = "ValueError"
               /\ pc' = "Failed"
               /\ UNCHANGED <<executions, runLog>>
          ELSE /\ runLog' = Append(runLog, GitProcess("plan", did.args))
               /\ executions' = Append(executions, did.record)
               /\ UNCHANGED <<error, pc>>
    /\ UNCHANGED <<pureVars, client, include_diff, repo, entryPoint, content, plan, context,
                   modelCalls, steps, toolCalls, toolOut, toolCommand>>

ExecutePlanDoneEarly ==
    /\ pc = "Planned"
    /\ pc' = "Executed"
    /\ UNCHANGED <<pureVars, client, include_diff, repo, entryPoint, content, plan, error,
                   context, executions, modelCalls, steps, toolCalls, toolOut, toolCommand,
                   runLog>>

\* execute_git_plan returns its results
ExecutePlanDone ==
    /\ pc = "Planned"
    /\ Len(executions) = Len(plan)
    /\ pc' = "Executed"
    /\ UNCHANGED <<pureVars, client, include_diff, repo, entryPoint, content, plan, error,
                   context, executions, modelCalls, steps, toolCalls, toolOut, toolCommand, runLog>>

\* generate_final_answer, and the AgentRunResult is returned
GenerateFinalAnswer ==
    /\ pc = "Executed"
    /\ modelCalls' = modelCalls + 1
    /\ \/ pc' = "Answered" /\ UNCHANGED error
       \/ pc' = "Failed" /\ error' = "TransportError"
    /\ UNCHANGED <<pureVars, client, include_diff, repo, entryPoint, content, plan, context,
                   executions, steps, toolCalls, toolOut, toolCommand, runLog>>

(* repo_lens/command_agent.py: run_command_agent, the iterative agent *)

MAX_STEPS == 6

\* cli.agent: run_command_agent gathers the context and builds the agent
AgentRunStart ==
    /\ pc = "Idle"
    /\ entryPoint' = "agent"
    /\ GatherContext(FALSE)
    /\ pc' = "AgentLoop"
    /\ UNCHANGED <<pureVars, client, include_diff, repo, content, plan, error, executions,
                   modelCalls, steps, toolCalls, toolOut, toolCommand>>

\* agent.run: the model is asked for the next step
AgentStepBegin ==
    /\ pc = "AgentLoop"
    /\ steps < MAX_STEPS
    /\ steps' = steps + 1
    /\ modelCalls' = modelCalls + 1
    /\ pc' = "InStep"
    /\ UNCHANGED <<pureVars, client, include_diff, repo, entryPoint, content, plan, error,
                   context, executions, toolCalls, toolOut, toolCommand, runLog>>

\* the step's code calls the git tool: GitTool.forward(command), for a
\* command among cmds and a git process among procs, at most limit times
ToolInvokeFrom(cmds, procs, limit) ==
    /\ pc = "InStep"
    /\ toolCalls < limit
    /\ toolCalls' = toolCalls + 1
    /\ \E cmd \in cmds, proc \in procs :
          LET did == forward(cmd, proc) IN
          /\ toolCommand' = cmd
          /\ toolOut' = did.ret
          /\ runLog' = IF did.ran THEN Append(runLog, GitProcess("tool", did.args)) ELSE runLog
          /\ executions' = IF did.appended THEN Append(executions, did.record) ELSE executions
    /\ UNCHANGED <<pureVars, client, include_diff, repo, entryPoint, content, plan, error,
                   context, modelCalls, steps, pc>>

ToolInvoke == ToolInvokeFrom(ToolCommands, ToolProcs(repo), MaxToolCalls)

\* the step ends without a final answer
AgentStepEnd ==
    /\ pc = "InStep"
    /\ pc' = "AgentLoop"
    /\ UNCHANGED <<pureVars, client, include_diff, repo, entryPoint, content, plan, error,
                   context, executions, modelCalls, steps, toolCalls, toolOut, toolCommand, runLog>>

AgentAnswerPlanEmpty ==
    /\ \/ pc = "InStep"
       \/ pc = "AgentLoop" /\ steps = MAX_STEPS
    /\ pc' = "Answered"
    /\ UNCHANGED <<pureVars, client, include_diff, repo, entryPoint, content, plan, error,
                   context, executions, modelCalls, steps, toolCalls, toolOut, toolCommand,
                   runLog>>

\* agent.run returns: the step gave the final answer, or the steps ran out;
\* the plan of the AgentRunResult is read off the executions
AgentAnswer ==
    /\ \/ pc = "InStep"
       \/ pc = "AgentLoop" /\ steps = MAX_STEPS
    /\ plan' = [i \in 1..Len(executions) |->
                  [command |-> executions[i].command, reason |-> executions[i].reason]]
    /\ pc' = "Answered"
    /\ UNCHANGED <<pureVars, client, include_diff, repo, entryPoint, content, error, context,
                   executions, modelCalls, steps, toolCalls, toolOut, toolCommand, runLog>>

\* agent.run raises: run_command_agent raises AgentError
AgentError ==
    /\ pc \in {"AgentLoop", "InStep"}
    /\ error' = "AgentError"
    /\ pc' = "Failed"
    /\ UNCHANGED <<pureVars, client, include_diff, repo, entryPoint, content, plan, context,
                   executions, modelCalls, steps, toolCalls, toolOut, toolCommand, runLog>>

(* repo_lens/cli.py *)

\* a command that prints run_git(args): an uncaught GitError ends it
CliGit(name, args) ==
    /\ pc = "Idle"
    /\ entryPoint' = name
    /\ runLog' = Append(runLog, GitProcess(name, args))
    /\ \E proc \in PlanProcs(repo) :
          IF run_git(proc).ok
          THEN pc' = "Exited" /\ UNCHANGED error
          ELSE pc' = "Failed" /\ error' = "GitError"
    /\ UNCHANGED <<pureVars, client, include_diff, repo, content, plan, context, executions,
                   modelCalls, steps, toolCalls, toolOut, toolCommand>>

CliGitStatus == CliGit("git status", <<"status", "-sb">>)

CliGitPull ==
    \E branch \in {<<>>, <<"main">>} : CliGit("git pull", <<"pull", "origin">> \o branch)

CliGitPush ==
    \E branch \in {<<>>, <<"main">>} : CliGit("git push", <<"push", "origin">> \o branch)

\* ["checkout", *shlex.split(target)]
CliGitCheckout ==
    \E target \in {<<"main">>, <<"-b", SP, "topic">>} :
        CliGit("git checkout", <<"checkout">> \o ShlexSplit(target).parts)

CliGitCreateBranch == CliGit("git create-branch", <<"checkout", "-b", "topic", "HEAD">>)

CliGitLog == CliGit("git log", <<"log", "-n{limit}", "--date=short", PrettyFormat>>)

\* the arguments are given as they are
CliGitRun ==
    \E args \in {<<"log">>, <<"reset", "--hard">>} : CliGit("git run", args)

\* subprocess.run(command, cwd=..., check=True, shell=True)
CliShell ==
    /\ pc = "Idle"
    /\ entryPoint' = "shell"
    /\ \E line \in {"pwd > shell-proof.txt", "git log | head"} :
          runLog' = Append(runLog, ViaShell("shell", <<line>>))
    /\ \/ pc' = "Exited" /\ UNCHANGED error
       \/ pc' = "Failed" /\ error' = "Exit"
    /\ UNCHANGED <<pureVars, client, include_diff, repo, content, plan, context, executions,
                   modelCalls, steps, toolCalls, toolOut, toolCommand>>

\* ask: the context, with the grep hint if one is given, then one model call
CliAsk ==
    /\ pc = "Idle"
    /\ entryPoint' = "ask"
    /\ \E withGrep \in BOOLEAN : GatherContext(withGrep)
    /\ modelCalls' = modelCalls + 1
    /\ \/ pc' = "Exited" /\ UNCHANGED error
       \/ pc' = "Failed" /\ error' = "TransportError"
    /\ UNCHANGED <<pureVars, client, include_diff, repo, content, plan, executions, steps,
                   toolCalls, toolOut, toolCommand>>

Next ==
    \/ PlanRunStart
    \/ PlanCommands
    \/ PlanTransportError
    \/ ExecutePlanItem
    \/ ExecutePlanDone
    \/ GenerateFinalAnswer
    \/ AgentRunStart
    \/ AgentStepBegin
    \/ ToolInvoke
    \/ AgentStepEnd
    \/ AgentAnswer
    \/ AgentError
    \/ CliGitStatus
    \/ CliGitPull
    \/ CliGitPush
    \/ CliGitCheckout
    \/ CliGitCreateBranch
    \/ CliGitLog
    \/ CliGitRun
    \/ CliShell
    \/ CliAsk

Spec == Init /\ [][Next]_vars

-----------------------------------------------------------------------------
(* SpecAgentLoop: one run of the iterative agent in a work tree, followed  *)
(* through more tool invocations than Spec follows: the agent's steps call *)
(* the git tool with a command it runs or a command it denies.             *)

LoopCommands == {<<"git", SP, "log">>, <<"git", SP, "reset">>}

LoopProcs == {Proc(0, ShortText, <<>>)}

InitAgentLoop ==
    /\ pc = "Idle"
    /\ client = "LiteLLMClient"
    /\ content = <<>>
    /\ plan = <<>>
    /\ error = "none"
    /\ runLog = <<>>
    /\ IdleRun
    /\ IdleValidate
    /\ IdleTruncate
    /\ IdleContext

ToolInvokeMany == ToolInvokeFrom(LoopCommands, LoopProcs, MaxLoopCalls)

NextAgentLoop ==
    \/ AgentRunStart
    \/ AgentStepBegin
    \/ ToolInvokeMany
    \/ AgentStepEnd
    \/ AgentAnswer
    \/ AgentError

SpecAgentLoop == InitAgentLoop /\ [][NextAgentLoop]_vars

-----------------------------------------------------------------------------
\* C1: the validator accepts a command string if and only if it is
\* tokenizable with quoting honoured, its first token is 'git', it has at
\* least 2 tokens and its second token is in the allow-list; 'git log'
\* is accepted and 'git reset', 'reset' and 'git' are rejected.
C1_ValidatorAcceptsIff ==
    pc = "validated" =>
        LET split == ShlexSplit(command) IN
        /\ (verdict = "ok") <=>
              /\ split.ok
              /\ Len(split.parts) >= 2
              /\ split.parts[1] = "git"
              /\ split.parts[2] \in ALLOWED_SUBCOMMANDS
        /\ (command = <<"git", SP, "log">> => verdict = "ok")
        /\ (command \in {<<"git", SP, "reset">>, <<"reset">>, <<"git">>} => verdict # "ok")

C1_Witness ==
    /\ pc = "validated"
    /\ command = <<"git", SP, DQ, "log", DQ>>
    /\ verdict = "ok"

\* C10 as stated: whitespace-only input gives the placeholder, input at or
\* under the budget passes through verbatim, input over the budget is cut
\* to (budget - 20) characters, right-trimmed and suffixed with the marker;
\* the result is never longer than the budget and ends with the marker
\* whenever the input was over the budget.
C10_AsStated ==
    pc = "truncated" =>
        /\ (TStrip(text) = <<>> => truncated = NO_OUTPUT)
        /\ (TStrip(text) # <<>> /\ TLen(text) <= MAX_OUTPUT_CHARS => truncated = text)
        /\ (TStrip(text) # <<>> /\ TLen(text) > MAX_OUTPUT_CHARS =>
               /\ truncated = TConcat(TRStrip(TTake(text, MAX_OUTPUT_CHARS - TRUNCATE_MARGIN)),
                                      TRUNCATION_MARKER)
               /\ TEndsWith(truncated, TRUNCATION_MARKER))
        /\ TLen(truncated) <= MAX_OUTPUT_CHARS

\* C10 (amended): the budget is applied to the input with its surrounding
\* whitespace trimmed.  Whitespace-only input gives the placeholder; a
\* trimmed input at or under the budget is returned as trimmed; a trimmed
\* input over the budget is cut to (budget - 20) characters, right-trimmed
\* and suffixed with the marker.  The result is never longer than the
\* budget and ends with the marker whenever the trimmed input was over it.
C10_TruncationRule ==
    pc = "truncated" =>
        LET stripped == TStrip(text) IN
        /\ (stripped = <<>> => truncated = NO_OUTPUT)
        /\ (stripped # <<>> /\ TLen(stripped) <= MAX_OUTPUT_CHARS => truncated = stripped)
        /\ (TLen(stripped) > MAX_OUTPUT_CHARS =>
               LET kept == TTake(truncated, TLen(truncated) - TLen(TRUNCATION_MARKER))
                   window == TTake(stripped, MAX_OUTPUT_CHARS - TRUNCATE_MARGIN)
               IN /\ TEndsWith(truncated, TRUNCATION_MARKER)
                  /\ TLen(kept) <= MAX_OUTPUT_CHARS - TRUNCATE_MARGIN
                  /\ kept = TTake(stripped, TLen(kept))
                  /\ kept = TRStrip(kept)
                  /\ TRStrip(TDrop(window, TLen(kept))) = <<>>)
        /\ TLen(truncated) <= MAX_OUTPUT_CHARS

\* an over-budget text whose cut falls inside whitespace
C10_Witness ==
    /\ pc = "truncated"
    /\ text = <<<<"a", 3979>>, <<SP, 1>>, <<"a", 21>>>>
    /\ truncated = TConcat(<<<<"a", 3979>>>>, TRUNCATION_MARKER)

\* C11 as stated: for every output whose length is at most the budget,
\* truncating the truncated output gives the truncated output again, and
\* the truncated output is the output with its surrounding whitespace
\* trimmed.
C11_AsStated ==
    (pc = "truncated" /\ TLen(text) <= MAX_OUTPUT_CHARS) =>
        /\ _truncate_output(truncated) = truncated
        /\ truncated = TStrip(text)

\* C11 (amended): for every output whose length is at most the budget,
\* truncating the truncated output gives the truncated output again; the
\* truncated output is the trimmed output when that is not empty, and the
\* placeholder when the output is empty or only whitespace.
C11_IdempotentOnShortOutput ==
    (pc = "truncated" /\ TLen(text) <= MAX_OUTPUT_CHARS) =>
        /\ _truncate_output(truncated) = truncated
        /\ (TStrip(text) # <<>> => truncated = TStrip(text))
        /\ (TStrip(text) = <<>> => truncated = NO_OUTPUT)

\* a short output with whitespace on both sides
C11_Witness ==
    /\ pc = "truncated"
    /\ text = <<<<SP, 1>>, <<"a", 20>>, <<NL, 1>>>>
    /\ truncated = <<<<"a", 20>>>>
    /\ _truncate_output(truncated) = truncated

-----------------------------------------------------------------------------
(* What a response holds, read off the response itself.                    *)

\* the JSON document of a response that holds one
DocOf(txt) == LET i == Find(txt, "json", 1) IN IF i = 0 THEN NullDoc ELSE txt[i].v

Min(a, b) == IF a < b THEN a ELSE b

\* an entry with string fields whose command tokenizes to git and an
\* allow-listed subcommand
WellFormed(entry) ==
    /\ entry.kind = "object"
    /\ entry.command.kind = "str"
    /\ entry.reason.kind = "str"
    /\ LET split == ShlexSplit(entry.command.s) IN
       /\ split.ok
       /\ Len(split.parts) >= 2
       /\ split.parts[1] = "git"
       /\ split.parts[2] \in ALLOWED_SUBCOMMANDS

Trimmed(entry) == [command |-> Strip(entry.command.s), reason |-> Strip(entry.reason.s)]

\* C7: the parser keeps the first min(n, 4) entries of the response, in
\* order, and nothing after them: when those are well formed the plan is
\* exactly them (trimmed), whatever the later entries are, and in every case
\* the result is the result for the response cut after its fourth entry.
C7_TruncatesToMaxCommands ==
    (pc = "parsed" /\ content = Bare(DocOf(content))
        /\ DocOf(content).top = "object" /\ DocOf(content).commands = "list") =>
        LET es == DocOf(content).entries
            k == Min(Len(es), 4)
            cut == plan_git_commands(Bare(PlanDoc(SubSeq(es, 1, k))))
        IN /\ ((\A i \in 1..k : WellFormed(es[i])) =>
                  /\ error = "none"
                  /\ plan = [i \in 1..k |-> Trimmed(es[i])])
           /\ ((\E i \in 1..k : ~WellFormed(es[i])) => error # "none" /\ plan = <<>>)
           /\ plan = cut.plan
           /\ (error = "none") <=> (cut.status = "ok")

\* five entries, the fifth malformed: the plan is the first four
C7_Witness ==
    /\ pc = "parsed"
    /\ content = Bare(PlanDoc(<<EntryLog, EntryShowPadded, EntryShowPadded, EntryLog, EntryString>>))
    /\ error = "none"
    /\ plan = <<Trimmed(EntryLog), Trimmed(EntryShowPadded), Trimmed(EntryShowPadded), Trimmed(EntryLog)>>

\* C8: a response whose JSON object has no "commands" member, or has one
\* that is not a list, fails with the missing-commands-list error; no plan
\* is returned for it.
C8_MissingCommandsListFails ==
    (pc = "parsed" /\ content = Bare(DocOf(content))
        /\ DocOf(content).top = "object" /\ DocOf(content).commands # "list") =>
        error = "CommandPlanError:commands"

\* C9: a valid plan document gives the same plan bare, in a code fence,
\* after a reasoning block, and after a reasoning block in a code fence.
C9_AcceptsEveryWrapping ==
    (pc = "parsed" /\ content \in ContractWrappings(DocOf(content))
        /\ DocOf(content).top = "object" /\ DocOf(content).commands = "list"
        /\ \A i \in 1..Len(DocOf(content).entries) : WellFormed(DocOf(content).entries[i])) =>
        /\ error = "none"
        /\ plan = plan_git_commands(Bare(DocOf(content))).plan

-----------------------------------------------------------------------------
(* Claims about a run.                                                     *)

\* the validator's grammar, read with quoting honoured
Accepts(cmd) ==
    LET split == ShlexSplit(cmd) IN
    /\ split.ok
    /\ Len(split.parts) >= 2
    /\ split.parts[1] = "git"
    /\ split.parts[2] \in ALLOWED_SUBCOMMANDS

\* the validator's grammar, read on whitespace-separated words
AcceptsWords(cmd) ==
    LET words == WhitespaceWords(cmd) IN
    /\ Len(words) >= 2
    /\ words[1] = "git"
    /\ words[2] \in ALLOWED_SUBCOMMANDS

StartedBy(origins) == {i \in 1..Len(runLog) : runLog[i].origin \in origins}

\* C2 as stated: every command accepted into a plan by plan_git_commands,
\* or executed by execute_git_plan or GitTool.forward, begins with the word
\* git, has at least two whitespace-separated words, and its second
\* whitespace-separated word is in the allow-list.
C2_AsStated ==
    /\ entryPoint = "plan_pipeline" => \A i \in 1..Len(plan) : AcceptsWords(plan[i].command)
    /\ entryPoint \in {"plan_pipeline", "agent"} =>
          \A i \in 1..Len(executions) : AcceptsWords(executions[i].command)

\* C2 (amended): every command in a plan is the trimmed form of a command
\* that, tokenized with quoting honoured, begins with the token git, has at
\* least two tokens and has an allow-listed second token; every command the
\* git tool executes is such a command; and every argument vector that
\* execute_git_plan or GitTool.forward gives to run_git begins with an
\* allow-listed subcommand.
C2_AcceptedCommandsAllowListed ==
    /\ entryPoint = "plan_pipeline" =>
          \A i \in 1..Len(plan) :
              LET sent == DocOf(content).entries[i].command.s IN
              plan[i].command = Strip(sent) /\ Accepts(sent)
    /\ entryPoint = "agent" => \A i \in 1..Len(executions) : Accepts(executions[i].command)
    /\ \A i \in StartedBy({"plan", "tool"}) :
          runLog[i].args # <<>> /\ runLog[i].args[1] \in ALLOWED_SUBCOMMANDS

\* the git tool has run a command whose subcommand is quoted
C2_Witness ==
    /\ entryPoint = "agent"
    /\ \E i \in 1..Len(executions) : executions[i].command = <<"git", SP, DQ, "log", DQ>>
    /\ \E i \in StartedBy({"tool"}) : runLog[i].args = <<"log">>

\* C3: every argument vector execute_git_plan gives to run_git begins with
\* an allow-listed subcommand.
C3_ExecutorRunsAllowListedOnly ==
    \A i \in StartedBy({"plan"}) :
        runLog[i].args # <<>> /\ runLog[i].args[1] \in ALLOWED_SUBCOMMANDS

\* a padded and a quoted command of a parsed plan have both been run
C3_Witness ==
    /\ pc = "Executed"
    /\ plan = <<Trimmed(EntryShowPadded), Trimmed(EntryQuoted)>>
    /\ \E i, j \in StartedBy({"plan"}) :
          i < j /\ runLog[i].args = <<"show">> /\ runLog[j].args = <<"log">>

\* C4 as stated: no subprocess the program starts, from any entry point, is
\* passed through a shell.
C4_AsStated == \A i \in 1..Len(runLog) : ~runLog[i].shell

\* C4 (amended): every subprocess started through run_git - by context
\* gathering, the plan executor, the git tool and the CLI git commands -
\* gets a discrete argument vector and is not shell-interpreted; the one
\* subprocess passed through a shell is the one the CLI shell command
\* starts with the command line the user gave it.
C4_OnlyShellCommandUsesShell ==
    \A i \in 1..Len(runLog) :
        /\ runLog[i].shell <=> runLog[i].origin = "shell"
        /\ runLog[i].origin = "shell" => entryPoint = "shell"

\* the plan executor has run a git command, as an argument vector
C4_Witness ==
    /\ pc = "Answered"
    /\ \E i \in StartedBy({"plan"}) : ~runLog[i].shell
    /\ \E i \in StartedBy({"context"}) : ~runLog[i].shell

\* the response has an entry, among those retained, that is not well formed
HasBadEntry(txt) ==
    LET doc == DocOf(txt) IN
    /\ doc.top = "object"
    /\ doc.commands = "list"
    /\ \E i \in 1..Min(Len(doc.entries), 4) : ~WellFormed(doc.entries[i])

PlanningErrors ==
    {"CommandPlanError:json", "CommandPlanError:commands", "CommandPlanError:entry",
     "CommandPlanError:start", "CommandPlanError:subcommand", "CommandPlanError:notallowed",
     "AttributeError"}

\* plan_git_commands raised
PlanningFailed ==
    /\ entryPoint = "plan_pipeline"
    /\ pc = "Failed"
    /\ error \in PlanningErrors \/ (error = "ValueError" /\ plan = <<>>)

\* C5: when planning fails the run ends there: no entry of the plan has
\* been given to run_git, no execution is recorded and the planning call is
\* the only model call; and a response with a bad entry at any retained
\* position makes planning fail, whatever precedes the bad entry.
C5_PlanningFailureRunsNothing ==
    /\ PlanningFailed =>
          StartedBy({"plan"}) = {} /\ executions = <<>> /\ modelCalls = 1
    /\ (entryPoint = "plan_pipeline" /\ content # <<>> /\ HasBadEntry(content)) => PlanningFailed

\* a valid entry precedes the rejected one, and it has not been run
C5_Witness ==
    /\ PlanningFailed
    /\ content = Bare(PlanDoc(<<EntryLog, EntryReset>>))
    /\ error = "CommandPlanError:notallowed"
    /\ StartedBy({"plan"}) = {}

\* C6: execute_git_plan never raises: for a plan of n entries it returns n
\* records in plan order, record i with the command and the reason of entry
\* i, success set by the process, a failed one with a non-empty description.
C6_ExecutorNeverRaises ==
    entryPoint = "plan_pipeline" =>
        /\ ~(pc = "Failed" /\ error = "ValueError" /\ plan # <<>>)
        /\ pc \in {"Executed", "Answered"} =>
              /\ Len(executions) = Len(plan)
              /\ \A i \in 1..Len(plan) :
                    /\ executions[i].command = plan[i].command
                    /\ executions[i].reason = plan[i].reason
                    /\ executions[i].output # <<>>

\* C12: every CommandExecution record, made by execute_git_plan or by
\* GitTool.forward, for a command that succeeded or one that failed, holds
\* an output that went through the truncation rule: truncating it again
\* changes nothing and it is never longer than the budget of 4000.
C12_EveryOutputTruncated ==
    entryPoint \in {"plan_pipeline", "agent"} =>
        \A i \in 1..Len(executions) :
            /\ TLen(executions[i].output) <= MAX_OUTPUT_CHARS
            /\ _truncate_output(executions[i].output) = executions[i].output

\* what GitTool.forward returns for a command it does not run
ToolDenial(cmd) ==
    LET split == ShlexSplit(cmd) IN
    IF ~split.ok THEN "Unexpected error"
    ELSE IF split.parts = <<>> \/ split.parts[1] # "git" THEN "Error: must start with git"
    ELSE IF Len(split.parts) = 1 THEN "Error: must include a subcommand"
    ELSE "Error: subcommand not allowed"

\* C13: when GitTool.forward is given a command that fails validation
\* (untokenizable, empty, not starting with git, without a subcommand, or
\* with a subcommand outside the allow-list) it returns the denial message
\* for that failure and nothing else happens: no exception ends the run,
\* no process is started, the executions are as they were, and the step
\* goes on, free to call the tool again.
C13_DeniedToolCallChangesNothing ==
    [][(toolCalls' = toolCalls + 1 /\ ~Accepts(toolCommand')) =>
          /\ toolOut' = ToolDenial(toolCommand')
          /\ executions' = executions
          /\ runLog' = runLog
          /\ error' = error
          /\ pc' = "InStep"]_vars

\* after a command that ran, the tool has denied a command with a
\* subcommand outside the allow-list, and nothing was added for it
C13_Witness ==
    /\ pc = "InStep"
    /\ toolCalls = 2
    /\ toolCommand = <<"git", SP, "reset">>
    /\ toolOut = "Error: subcommand not allowed"
    /\ Len(executions) = 1
    /\ Cardinality(StartedBy({"tool"})) = 1

\* C14: a run of the iterative agent performs at most 6 tool invocations,
\* so its executions list never has more than 6 entries, and it ends
\* answered or failed.
C14_AtMostSixToolInvocations ==
    entryPoint = "agent" =>
        /\ toolCalls <= MAX_STEPS
        /\ Len(executions) <= MAX_STEPS
        /\ pc \in {"AgentLoop", "InStep", "Answered", "Failed"}

\* the stages of the plan pipeline, numbered in the order of a run
Stage(p) ==
    CASE p = "Idle" -> 0
      [] p = "ContextGathered" -> 1
      [] p = "Planned" -> 2
      [] p = "Executed" -> 3
      [] p = "Answered" -> 4
      [] OTHER -> 5

\* the subprocesses started by origin, in the order they were started
StartedSeq(origin) == SelectSeq(runLog, LAMBDA r : r.origin = origin)

\* C15: a run of the plan pipeline goes through Idle, ContextGathered,
\* Planned, Executed, Answered in that order, one stage at a time and none
\* entered twice.  The context is gathered once, before the planning call;
\* the plan entries are executed in the order parsed, each once, and all of
\* them before the answer call; the model is called once to plan and once
\* to answer, twice in a run that succeeds.
C15_PlanPipelineStageOrder ==
    /\ [][(entryPoint' = "plan_pipeline" /\ pc' # "Failed") =>
            \/ Stage(pc') = Stage(pc) + 1
            \/ (pc = "Planned" /\ pc' = "Planned" /\ Len(executions') = Len(executions) + 1)]_vars
    /\ [](entryPoint = "plan_pipeline" =>
            /\ Len(StartedSeq("context")) = Len(ContextCalls(FALSE, include_diff))
            /\ \A i \in 1..Len(runLog) :
                  runLog[i].origin = IF i <= Len(StartedSeq("context")) THEN "context" ELSE "plan"
            /\ pc = "ContextGathered" => modelCalls = 0 /\ executions = <<>>
            /\ pc \in {"Planned", "Executed"} => modelCalls = 1
            /\ pc = "Answered" => modelCalls = 2
            /\ Len(StartedSeq("plan")) = Len(executions)
            /\ Len(executions) <= Len(plan)
            /\ \A i \in 1..Len(executions) :
                  /\ executions[i].command = plan[i].command
                  /\ executions[i].reason = plan[i].reason
                  /\ StartedSeq("plan")[i].args =
                        LET parts == ShlexSplit(plan[i].command).parts
                        IN SubSeq(parts, 2, Len(parts))
            /\ pc \in {"Executed", "Answered"} => Len(executions) = Len(plan))

\* a run has answered after executing a plan of two different commands
C15_Witness ==
    /\ entryPoint = "plan_pipeline"
    /\ pc = "Answered"
    /\ modelCalls = 2
    /\ plan = <<Trimmed(EntryShowPadded), Trimmed(EntryLog)>>
    /\ Len(executions) = 2
    /\ StartedSeq("plan")[1].args = <<"show">>
    /\ StartedSeq("plan")[2].args = <<"log">>

\* the failure kind the validator's contract names for a tokenized command
StatedKind(parts) ==
    IF parts = <<>> THEN "EmptyCommand"
    ELSE IF parts[1] # "git" THEN "NotGitCommand"
    ELSE IF Len(parts) = 1 THEN "MissingSubcommand"
    ELSE IF parts[2] \notin ALLOWED_SUBCOMMANDS THEN "SubcommandNotAllowed"
    ELSE "Accepted"

\* one command of each kind: "", "log", "git", "git reset", "git log"
KindExamples == {<<>>, <<"log">>, <<"git">>, <<"git", SP, "reset">>, <<"git", SP, "log">>}

\* C16 as stated: the validator reports a distinct failure kind for the
\* first check a command fails, in the order EmptyCommand (no token),
\* NotGitCommand (first token not git), MissingSubcommand (one token),
\* SubcommandNotAllowed (second token outside the allow-list): commands of
\* different kinds get different outcomes.  It has no side effects.
C16_AsStated ==
    (pc = "validated" /\ ShlexSplit(command).ok) =>
        /\ \A other \in KindExamples :
              StatedKind(ShlexSplit(other).parts) # StatedKind(ShlexSplit(command).parts)
                  => _validate_command(other) # verdict
        /\ runLog = <<>> /\ executions = <<>> /\ plan = <<>>

\* C16 (amended): for a command that can be tokenized the validator reports
\* the first check that fails, in this order: not-a-git-command when there
\* is no token or the first token is not git (an empty command has no
\* failure kind of its own), missing-subcommand when there is exactly one
\* token, subcommand-not-allowed when the second token is outside the
\* allow-list; the three kinds are distinct from each other and from
\* acceptance.  It has no side effects.
C16_FailureKindsInOrder ==
    (pc = "validated" /\ ShlexSplit(command).ok) =>
        LET kind == StatedKind(ShlexSplit(command).parts)
            merged(k) == IF k = "EmptyCommand" THEN "NotGitCommand" ELSE k
        IN /\ kind \in {"EmptyCommand", "NotGitCommand"} <=> verdict = "CommandPlanError:start"
           /\ kind = "MissingSubcommand" <=> verdict = "CommandPlanError:subcommand"
           /\ kind = "SubcommandNotAllowed" <=> verdict = "CommandPlanError:notallowed"
           /\ kind = "Accepted" <=> verdict = "ok"
           /\ \A other \in KindExamples :
                 merged(StatedKind(ShlexSplit(other).parts)) # merged(kind)
                     => _validate_command(other) # verdict
           /\ runLog = <<>> /\ executions = <<>> /\ plan = <<>>

\* a command of one token that is not git fails the first check, not the
\* check on the number of tokens
C16_Witness ==
    /\ pc = "validated"
    /\ command = <<"log">>
    /\ verdict = "CommandPlanError:start"

\* the ways a bare response is malformed: no JSON document, a document
\* whose top level is not an object, a "commands" member that is not a
\* list, and among the entries the parser reads one that is not an object,
\* lacks a string "command" or "reason", or has a command that cannot be
\* tokenized
Malformed(txt) ==
    LET doc == DocOf(txt) IN
    \/ Find(txt, "json", 1) = 0
    \/ /\ txt = Bare(doc)
       /\ \/ doc.top # "object"
          \/ doc.commands \notin {"list", "absent"}
          \/ /\ doc.commands = "list"
             /\ \E i \in 1..Min(Len(doc.entries), MAX_COMMANDS) :
                   LET entry == doc.entries[i] IN
                   \/ entry.kind # "object"
                   \/ entry.command.kind # "str"
                   \/ entry.reason.kind # "str"
                   \/ ~ShlexSplit(entry.command.s).ok

CommandPlanErrors ==
    {"CommandPlanError:json", "CommandPlanError:commands", "CommandPlanError:entry",
     "CommandPlanError:start", "CommandPlanError:subcommand", "CommandPlanError:notallowed"}

\* C17: every malformed plan response - text that is not JSON, a top level
\* that is not an object, a "commands" value that is not a list, an entry
\* that is not an object, an entry whose "command" or "reason" is missing
\* or not a string, a command that cannot be tokenized - is rejected with
\* CommandPlanError, never with another exception, and gives no plan.
C17_MalformedRejectedWithPlanError ==
    (pc = "parsed" /\ Malformed(content)) =>
        error \in CommandPlanErrors /\ plan = <<>>

\* the text of a failed process's error: the trimmed stderr, or else the
\* trimmed stdout, or else the generic message
ErrorText(proc) ==
    IF TStrip(proc.stderr) # <<>> THEN TStrip(proc.stderr)
    ELSE IF TStrip(proc.stdout) # <<>> THEN TStrip(proc.stdout)
    ELSE CalledProcessErrorText

\* the labels of the context's sections, in the order of the contract
SectionLabels(withGrep, diff) ==
    <<"Repository: ", "Branch: ", "Status:\n", "Recent commits:\n">>
    \o (IF withGrep THEN <<"Grep results:\n">> ELSE <<>>)
    \o (IF diff THEN <<"Staged diff:\n", "Working diff:\n">> ELSE <<>>)

\* C18: the context is the sections Repository, Branch, Status, Recent
\* commits, then Grep results exactly when a grep term is given, then
\* Staged diff and Working diff exactly when include_diff is set, in that
\* order and separated by blank lines.  Every inspection is run, whichever
\* of them fail; a section whose inspection failed is still there, in its
\* place, with the error marker as its body, and a section whose
\* inspection succeeded has the trimmed output as its body.
C18_ContextSectionsInFixedOrder ==
    pc = "gathered" =>
        LET labels == SectionLabels(grep, include_diff)
            n == Len(labels)
        IN /\ Len(context) = 2 * n - 1
           /\ \A i \in 1..n : context[2 * i - 1].label = labels[i]
           /\ \A i \in 1..(n - 1) : context[2 * i] = BLANK_LINE
           /\ Len(runLog) = n - 1
           /\ \A i \in 2..n :
                 LET proc == inspections[i - 1] IN
                 context[2 * i - 1].body =
                     IF proc.code = 0 THEN TStrip(proc.stdout)
                     ELSE GitErrorSentinel(ErrorText(proc))

\* with a grep term and the diffs, the status inspection alone failed and
\* the grep inspection printed nothing: all seven sections are there
C18_Witness ==
    /\ pc = "gathered"
    /\ grep /\ include_diff
    /\ inspections = <<Proc(0, ShortText, <<>>), NotARepository, Proc(0, ShortText, <<>>),
                       Proc(0, <<>>, <<>>), Proc(0, ShortText, <<>>), Proc(0, ShortText, <<>>)>>
    /\ Len(context) = 13
    /\ context[5] = Part("Status:\n", GitErrorSentinel(TStrip(FatalText)))
    /\ context[9] = Part("Grep results:\n", <<>>)

\* C19: a failed model call is not tried again and ends the run.  Each
\* request to the model is one attempt: a run of the plan pipeline sends at
\* most one planning and one answering request, and the request that
\* fails is the last thing the run does.  After a failed planning call no
\* plan command has run and no answer call follows; after a failed answer
\* call the run has failed and never returns a result.
C19_TransportFailureEndsRun ==
    /\ [][/\ modelCalls' \in {modelCalls, modelCalls + 1}
          /\ (error' = "TransportError" /\ error = "none") =>
                 modelCalls' = modelCalls + 1 /\ pc' = "Failed"
          /\ pc = "Failed" => UNCHANGED vars]_vars
    /\ [](/\ entryPoint = "plan_pipeline" => modelCalls <= 2
          /\ pc = "ContextGathered" => modelCalls = 0
          /\ (entryPoint = "plan_pipeline" /\ error = "TransportError") =>
                /\ pc = "Failed"
                /\ modelCalls = 1 =>
                      plan = <<>> /\ executions = <<>> /\ StartedBy({"plan"}) = {}
                /\ modelCalls = 2 => Len(executions) = Len(plan))

\* the answer call failed after the plan was executed: the run has failed
C19_Witness ==
    /\ entryPoint = "plan_pipeline"
    /\ error = "TransportError"
    /\ pc = "Failed"
    /\ modelCalls = 2
    /\ Len(executions) = 1

\* "<error: " + message + ">"
StatedSentinel(msg) ==
    TConcat(TConcat(<<<<"<", 1>>, <<"e", 1>>, <<"r", 2>>, <<"o", 1>>, <<"r", 1>>, <<":", 1>>,
                      <<SP, 1>>>>, msg),
            <<<<">", 1>>>>)

\* "<git error: " + message + ">"
GitSentinel(msg) ==
    TConcat(TConcat(<<<<"<", 1>>, <<"g", 1>>, <<"i", 1>>, <<"t", 1>>, <<SP, 1>>, <<"e", 1>>,
                      <<"r", 2>>, <<"o", 1>>, <<"r", 1>>, <<":", 1>>, <<SP, 1>>>>, msg),
            <<<<">", 1>>>>)

\* the section bodies of the context, one for each inspection that ran
Bodies == [i \in 1..Len(runLog) |-> context[2 * i + 1].body]

\* C20 as stated: a git process that exits with code 0 gives its trimmed
\* standard output; one that exits non-zero gives an error whose text is
\* the trimmed stderr, or else the trimmed stdout, or else a generic
\* message, and is never empty; try_git does not let the error through
\* and returns "<error: " + that text + ">" in its place.
C20_AsStated ==
    pc = "gathered" =>
        \A i \in 1..Len(runLog) :
            LET proc == inspections[i] IN
            /\ ErrorText(proc) # <<>>
            /\ Bodies[i] = IF proc.code = 0 THEN TStrip(proc.stdout)
                           ELSE StatedSentinel(ErrorText(proc))

\* C20 (amended): as stated, except that the sentinel try_git returns is
\* "<git error: " + the error's text + ">".
C20_ProcessRunnerOutcomes ==
    pc = "gathered" =>
        \A i \in 1..Len(runLog) :
            LET proc == inspections[i] IN
            /\ ErrorText(proc) # <<>>
            /\ Bodies[i] = IF proc.code = 0 THEN TStrip(proc.stdout)
                           ELSE GitSentinel(ErrorText(proc))

\* the first inspection failed with its message on stdout, the second with
\* no message at all, the third succeeded
C20_Witness ==
    /\ pc = "gathered"
    /\ inspections[1] = Proc(1, ShortText, <<>>)
    /\ inspections[2] = Proc(1, <<<<NL, 1>>>>, <<<<SP, 1>>>>)
    /\ inspections[3] = Proc(0, ShortText, <<>>)
    /\ Bodies[1] = GitSentinel(<<<<"a", 40>>>>)
    /\ Bodies[2] = GitSentinel(CalledProcessErrorText)
    /\ Bodies[3] = <<<<"a", 40>>>>

\* C21: in the result either variant of run_command_agent returns, plan
\* and executions have the same length and entry i of the one has the
\* command and the reason of entry i of the other.  In the iterative
\* variant the two lists hold exactly the invocations the tool ran, in
\* order, those that failed included; a denied invocation is in neither.
C21_PlanAndExecutionsAligned ==
    (pc = "Answered" /\ entryPoint \in {"plan_pipeline", "agent"}) =>
        /\ Len(plan) = Len(executions)
        /\ \A i \in 1..Len(executions) :
              /\ executions[i].command = plan[i].command
              /\ executions[i].reason = plan[i].reason
        /\ entryPoint = "agent" =>
              /\ Len(executions) = Len(StartedSeq("tool"))
              /\ Len(executions) <= toolCalls
              /\ \A i \in 1..Len(executions) :
                    /\ Accepts(executions[i].command)
                    /\ StartedSeq("tool")[i].args =
                          LET parts == ShlexSplit(executions[i].command).parts
                          IN SubSeq(parts, 2, Len(parts))

\* the iterative agent has answered after three invocations: one ran, one
\* ran and failed, one was denied
C21_Witness ==
    /\ pc = "Answered"
    /\ entryPoint = "agent"
    /\ toolCalls = 3
    /\ Len(executions) = 2
    /\ Len(plan) = 2
    /\ \E i, j \in 1..2 : executions[i].success /\ ~executions[j].success

====
